---- MODULE Spec2Model ----
(***************************************************************************)
(* Model of the resource machine of aarm-risc0 (host-old/src/main.rs): the *)
(* fixed-depth commitment tree (new / merge / complete / root / path), the *)
(* Merkle path fold (native/aarm_core/src/merkle_path.rs) and the ledger   *)
(* state machine ResourceMachine::apply.                                   *)
(*                                                                         *)
(* Digests are modelled as terms: a leaf digest is a 1-tuple <<n>>, and    *)
(* the hash of two children is the pair of the children, so the hash is    *)
(* collision-free by construction.                                         *)
(***************************************************************************)
EXTENDS Integers, Sequences, FiniteSets

(***************************************************************************)
(* Bounds                                                                  *)
(***************************************************************************)
\* COMMITMENT_TREE_DEPTH (host-old/src/main.rs:11), scaled down
Depth == 2
\* number of distinct non-blank leaf digests used for tree inputs
NumLeafValues == 2
\* number of distinct nullifier digests a transaction can carry
NumNullifiers == 2
\* number of distinct commitment digests a transaction can carry
NumCommitments == 2
\* largest number of proof records in one transaction
MaxProofs == 2
\* largest number of leaves beyond 2^Depth in the input of a merge
MaxExtraLeafs == 2
\* nullifier secret keys
NumKeys == 2
\* the largest quantity of a resource
MaxQuantity == 1
\* the order of the field of FieldElement, scaled down
FieldModulus == 5
\* resource logics (logic_ref values)
NumLogicRefs == 2

RECURSIVE Pow2(_)
Pow2(n) == IF n = 0 THEN 1 ELSE 2 * Pow2(n - 1)

(***************************************************************************)
(* Hashable for Digest                                                     *)
(***************************************************************************)
\* Digest::default()
blank == <<0>>

\* Digest::combine: the hash of lhs || rhs
combine(lhs, rhs) == <<lhs, rhs>>

\* Node::combine(height, lhs, rhs) as called by the tree code. The Hashable
\* implementation for Digest hashes the two children only, so the height
\* does not enter the digest.
Node_combine(height, lhs, rhs) == combine(lhs, rhs)

\* 0-based indexing into a Vec
At(v, i) == v[i + 1]

\* the slice v[from..to) of a Vec
Slice(v, from, to) == [k \in 1..(to - from) |-> v[from + k]]

(***************************************************************************)
(* CommitmentTree: [nodes |-> self.0, leafs |-> self.1]                    *)
(***************************************************************************)
\* the first loop of complete, and the fold of root: the empty root after
\* combining at heights from..(to - 1)
RECURSIVE empty_root_fold(_, _, _)
empty_root_fold(x, from, to) ==
    IF from >= to THEN x
    ELSE empty_root_fold(Node_combine(from, x, x), from + 1, to)

\* the second loop of complete: add higher and higher rows
RECURSIVE complete_rows(_, _, _, _, _)
complete_rows(tree, prev_start, prev_width, height, empty_root) ==
    IF height >= Depth THEN tree
    ELSE LET odd    == prev_width % 2 = 1
             width  == IF odd THEN prev_width + 1 ELSE prev_width
             padded == IF odd THEN Append(tree, empty_root) ELSE tree
             row    == [j \in 1..(width \div 2) |->
                          Node_combine(height,
                                       At(padded, prev_start + 2 * (j - 1)),
                                       At(padded, prev_start + 2 * (j - 1) + 1))]
         IN  complete_rows(padded \o row, prev_start + width, width \div 2,
                           height + 1,
                           Node_combine(height, empty_root, empty_root))

\* rows padded with a blank leaf whatever the height
RECURSIVE blank_padded_rows(_, _, _, _)
blank_padded_rows(tree, prev_start, prev_width, height) ==
    IF height >= Depth THEN tree
    ELSE LET odd    == prev_width % 2 = 1
             width  == IF odd THEN prev_width + 1 ELSE prev_width
             padded == IF odd THEN Append(tree, blank) ELSE tree
             row    == [j \in 1..(width \div 2) |->
                          Node_combine(height,
                                       At(padded, prev_start + 2 * (j - 1)),
                                       At(padded, prev_start + 2 * (j - 1) + 1))]
         IN  blank_padded_rows(padded \o row, prev_start + width,
                               width \div 2, height + 1)

complete_BlankPad(tree, prev_start, prev_width, heightp, leafs) ==
    [nodes |-> blank_padded_rows(tree, prev_start, prev_width, heightp),
     leafs |-> leafs]

\* CommitmentTree::complete
complete(tree, prev_start, prev_width, heightp, leafs) ==
    [nodes |-> complete_rows(tree, prev_start, prev_width, heightp,
                             empty_root_fold(blank, 0, heightp)),
     leafs |-> leafs]

\* the capacity new and merge reserve for the Vec of a tree of n leaves:
\* Vec::with_capacity(leafs * 2 + COMMITMENT_TREE_DEPTH - 1)
with_capacity(n) == n * 2 + Depth - 1

\* CommitmentTree::new
new(leafs) == complete(leafs, 0, Len(leafs), 0, Len(leafs))

\* CommitmentTree::default(): an empty Vec and a zero leaf count
CommitmentTree_default == [nodes |-> <<>>, leafs |-> 0]

\* CommitmentTree::size
size(self) == self.leafs

\* CommitmentTree::root
root(self) ==
    IF Len(self.nodes) > 0 THEN self.nodes[Len(self.nodes)]
    ELSE empty_root_fold(blank, 0, Depth)

\* a call that panics (index out of range, failed assertion) returns one of
\* these values, which no completed call returns
PanickedTree == [nodes |-> <<>>, leafs |-> -1]
PanickedPath == [auth_path |-> <<>>, position |-> -1]

\* a loop of path that takes a blank leaf, whatever the height, as the
\* sibling to the right of the row
RECURSIVE path_rows_BlankSibling(_, _, _, _, _, _, _)
path_rows_BlankSibling(self, pos, start, prev_width, height, empty_root, auth_path) ==
    IF height >= Depth THEN [panic |-> FALSE, auth_path |-> auth_path]
    ELSE LET width == IF prev_width % 2 = 1 THEN prev_width + 1 ELSE prev_width
             index == IF pos % 2 = 0 THEN start + pos + 1 ELSE start + pos - 1
             inrow == IF pos % 2 = 0 THEN pos + 1 < width ELSE pos - 1 < width
         IN  IF inrow /\ index >= Len(self.nodes)
             THEN [panic |-> TRUE, auth_path |-> <<>>]
             ELSE path_rows_BlankSibling(self, pos \div 2, start + width,
                            width \div 2, height + 1,
                            Node_combine(height, empty_root, empty_root),
                            Append(auth_path,
                                   [node |-> IF inrow THEN At(self.nodes, index)
                                             ELSE blank,
                                    flag |-> pos % 2 = 1]))

\* the loop of path: one (sibling, flag) element per height; panic is set
\* when an index is out of range
RECURSIVE path_rows(_, _, _, _, _, _, _)
path_rows(self, pos, start, prev_width, height, empty_root, auth_path) ==
    IF height >= Depth THEN [panic |-> FALSE, auth_path |-> auth_path]
    ELSE LET width == IF prev_width % 2 = 1 THEN prev_width + 1 ELSE prev_width
             index == IF pos % 2 = 0 THEN start + pos + 1 ELSE start + pos - 1
             inrow == IF pos % 2 = 0 THEN pos + 1 < width ELSE pos - 1 < width
         IN  IF inrow /\ index >= Len(self.nodes)
             THEN [panic |-> TRUE, auth_path |-> <<>>]
             ELSE path_rows(self, pos \div 2, start + width, width \div 2,
                            height + 1,
                            Node_combine(height, empty_root, empty_root),
                            Append(auth_path,
                                   [node |-> IF inrow THEN At(self.nodes, index)
                                             ELSE empty_root,
                                    flag |-> pos % 2 = 1]))

\* a path that records the flag the other way round
path_FlagSwapped(self, pos) ==
    LET rows == path_rows(self, pos, 0, self.leafs, 0, blank, <<>>)
    IN  IF rows.panic THEN PanickedPath
        ELSE [auth_path |-> [h \in 1..Len(rows.auth_path) |->
                               [node |-> rows.auth_path[h].node,
                                flag |-> ~rows.auth_path[h].flag]],
              position |-> pos]

\* CommitmentTree::path
path(self, pos) ==
    LET rows == path_rows(self, pos, 0, self.leafs, 0, blank, <<>>)
    IN  IF rows.panic THEN PanickedPath
        ELSE [auth_path |-> rows.auth_path, position |-> pos]

(***************************************************************************)
(* MerklePath                                                              *)
(***************************************************************************)
\* a fold that puts the sibling on the right when the flag is set
RECURSIVE root_fold_SiblingRight(_, _, _)
root_fold_SiblingRight(auth_path, h, acc) ==
    IF h > Len(auth_path) THEN acc
    ELSE root_fold_SiblingRight(auth_path, h + 1,
                                IF auth_path[h].flag
                                THEN combine(acc, auth_path[h].node)
                                ELSE combine(auth_path[h].node, acc))

\* the fold of MerklePath::root over the elements from the h-th on
RECURSIVE root_fold(_, _, _)
root_fold(auth_path, h, acc) ==
    IF h > Len(auth_path) THEN acc
    ELSE root_fold(auth_path, h + 1,
                   IF auth_path[h].flag
                   THEN combine(auth_path[h].node, acc)
                   ELSE combine(acc, auth_path[h].node))

\* MerklePath::root
MerklePath_root(self, leaf) == root_fold(self.auth_path, 1, leaf)

(***************************************************************************)
(* CommitmentTree::merge                                                   *)
(***************************************************************************)
RECURSIVE is_power_of_two(_)
is_power_of_two(n) ==
    IF n <= 0 THEN FALSE
    ELSE IF n = 1 THEN TRUE
    ELSE n % 2 = 0 /\ is_power_of_two(n \div 2)

\* the loop of merge; st holds the loop's local variables
RECURSIVE merge_rows(_, _)
merge_rows(subtrees, st) ==
    LET n    == Len(subtrees)
        last == subtrees[n].nodes
        \* need to make sure that right child is present for parent
        pad  == st.prev_last_width % 2 = 1 /\ st.prev_first_width > 1
        prev_last_width == IF pad THEN st.prev_last_width + 1
                           ELSE st.prev_last_width
        prev_width == IF pad THEN st.prev_width + 1 ELSE st.prev_width
        inrange ==
            /\ \A k \in 1..(n - 1) :
                 st.prev_first_start + st.prev_first_width
                     <= Len(subtrees[k].nodes)
            /\ st.prev_last_start + prev_last_width <= Len(last)
        full == [i \in 1..((n - 1) * st.prev_first_width) |->
                   At(subtrees[(i - 1) \div st.prev_first_width + 1].nodes,
                      st.prev_first_start + ((i - 1) % st.prev_first_width))]
        tree == st.tree \o full
                  \o Slice(last, st.prev_last_start,
                           st.prev_last_start + prev_last_width)
    IN  IF ~inrange THEN [panic |-> TRUE]
        ELSE IF st.prev_first_width = 1
        THEN [panic |-> FALSE, tree |-> tree, prev_start |-> st.prev_start,
              prev_width |-> prev_width, height |-> st.height]
        ELSE merge_rows(subtrees,
               [height |-> st.height + 1,
                prev_first_start |-> st.prev_first_start + st.prev_first_width,
                prev_first_width |-> st.prev_first_width \div 2,
                prev_last_start |-> st.prev_last_start + prev_last_width,
                prev_last_width |-> prev_last_width \div 2,
                prev_start |-> st.prev_start + prev_width,
                prev_width |-> prev_width \div 2,
                tree |-> tree])

\* the number of leaves of the merged tree
merge_leafs(subtrees) ==
    (Len(subtrees) - 1) * size(subtrees[1]) + size(subtrees[Len(subtrees)])

\* the assertions of merge
merge_asserts(subtrees) ==
    /\ is_power_of_two(size(subtrees[1]))
    /\ \A k \in 1..(Len(subtrees) - 1) : size(subtrees[k]) = size(subtrees[1])

\* the rows merge takes from the supplied subtrees
merge_taken(subtrees) ==
    merge_rows(subtrees,
               [height |-> 0,
                prev_first_start |-> 0,
                prev_first_width |-> size(subtrees[1]),
                prev_last_start |-> 0,
                prev_last_width |-> size(subtrees[Len(subtrees)]),
                prev_start |-> 0,
                prev_width |-> merge_leafs(subtrees),
                tree |-> <<>>])

\* a merge that infers the rest from the leaf row instead of the highest
\* row taken from the subtrees
merge_FromLeafRow(subtrees) ==
    IF Len(subtrees) = 0 THEN [nodes |-> <<>>, leafs |-> 0]
    ELSE IF Len(subtrees) = 1 THEN subtrees[1]
    ELSE IF ~merge_asserts(subtrees) THEN PanickedTree
    ELSE LET r == merge_taken(subtrees)
         IN  IF r.panic THEN PanickedTree
             ELSE complete(r.tree, 0, merge_leafs(subtrees), r.height,
                           merge_leafs(subtrees))

\* a merge that gives the merged tree the leaf count of the first subtree
merge_LeafsOfFirst(subtrees) ==
    IF Len(subtrees) = 0 THEN [nodes |-> <<>>, leafs |-> 0]
    ELSE IF Len(subtrees) = 1 THEN subtrees[1]
    ELSE IF ~merge_asserts(subtrees) THEN PanickedTree
    ELSE LET r == merge_taken(subtrees)
         IN  IF r.panic THEN PanickedTree
             ELSE complete(r.tree, r.prev_start, r.prev_width, r.height,
                           size(subtrees[1]))

\* CommitmentTree::merge
merge(subtrees) ==
    IF Len(subtrees) = 0 THEN [nodes |-> <<>>, leafs |-> 0]
    ELSE IF Len(subtrees) = 1 THEN subtrees[1]
    ELSE IF ~merge_asserts(subtrees) THEN PanickedTree
    ELSE LET r == merge_taken(subtrees)
         IN  IF r.panic THEN PanickedTree
             ELSE complete(r.tree, r.prev_start, r.prev_width, r.height,
                           merge_leafs(subtrees))

(***************************************************************************)
(* ResourceMachine                                                         *)
(***************************************************************************)
\* image ids of the proof records (methods::*_ID)
CONSUME_RESOURCE_ID == "CONSUME_RESOURCE_ID"
CREATE_RESOURCE_ID == "CREATE_RESOURCE_ID"
ALWAYS_TRUE_ID == "ALWAYS_TRUE_ID"

\* ResourceMachineError, and Ok(()); InvalidProof carries no digest
Ok == [tag |-> "Ok", digest |-> blank]
InvalidProof == [tag |-> "InvalidProof", digest |-> blank]
UnknownRoot(d) == [tag |-> "UnknownRoot", digest |-> d]
RevealedNullifier(d) == [tag |-> "RevealedNullifier", digest |-> d]
DuplicateCommitment(d) == [tag |-> "DuplicateCommitment", digest |-> d]
\* the panic of an unwrap: apply does not return
Panic == [tag |-> "Panic", digest |-> blank]

\* whether apply decodes the journal of a proof record of this image id
decoded(proof) ==
    proof.image_id \in {CONSUME_RESOURCE_ID, CREATE_RESOURCE_ID}

\* Vec::contains
contains(v, x) == \E k \in 1..Len(v) : v[k] = x

\* the checks on one proof record with one of them left out
verify_proof_NoNullifierCheck(rm, proof) ==
    IF ~proof.verifies THEN InvalidProof
    ELSE IF proof.image_id = CONSUME_RESOURCE_ID
    THEN IF proof.root \notin rm.roots THEN UnknownRoot(proof.root)
         ELSE Ok
    ELSE IF proof.image_id = CREATE_RESOURCE_ID
    THEN IF contains(rm.commitments, proof.commitment)
         THEN DuplicateCommitment(proof.commitment)
         ELSE Ok
    ELSE Ok

verify_proof_NoCommitmentCheck(rm, proof) ==
    IF ~proof.verifies THEN InvalidProof
    ELSE IF proof.image_id = CONSUME_RESOURCE_ID
    THEN IF proof.root \notin rm.roots THEN UnknownRoot(proof.root)
         ELSE IF proof.nullifier \in rm.nullifiers
         THEN RevealedNullifier(proof.nullifier)
         ELSE Ok
    ELSE Ok

verify_proof_NoRootCheck(rm, proof) ==
    IF ~proof.verifies THEN InvalidProof
    ELSE IF proof.image_id = CONSUME_RESOURCE_ID
    THEN IF proof.nullifier \in rm.nullifiers
         THEN RevealedNullifier(proof.nullifier)
         ELSE Ok
    ELSE IF proof.image_id = CREATE_RESOURCE_ID
    THEN IF contains(rm.commitments, proof.commitment)
         THEN DuplicateCommitment(proof.commitment)
         ELSE Ok
    ELSE Ok

\* the body of the first loop of apply: the checks on one proof record
verify_proof(rm, proof) ==
    IF ~proof.verifies THEN InvalidProof
    ELSE IF decoded(proof) /\ ~proof.decodes THEN Panic
    ELSE IF proof.image_id = CONSUME_RESOURCE_ID
    THEN IF proof.root \notin rm.roots THEN UnknownRoot(proof.root)
         ELSE IF proof.nullifier \in rm.nullifiers
         THEN RevealedNullifier(proof.nullifier)
         ELSE Ok
    ELSE IF proof.image_id = CREATE_RESOURCE_ID
    THEN IF contains(rm.commitments, proof.commitment)
         THEN DuplicateCommitment(proof.commitment)
         ELSE Ok
    ELSE Ok

\* the first loop of apply: the first error, or Ok
RECURSIVE verify_pass(_, _, _)
verify_pass(rm, proofs, i) ==
    IF i > Len(proofs) THEN Ok
    ELSE LET r == verify_proof(rm, proofs[i])
         IN  IF r.tag # "Ok" THEN r ELSE verify_pass(rm, proofs, i + 1)

\* a commit that puts a new commitment in front of the list
commit_proof_Prepend(rm, proof) ==
    IF proof.image_id = CONSUME_RESOURCE_ID
    THEN [rm EXCEPT !.nullifiers = @ \cup {proof.nullifier}]
    ELSE IF proof.image_id = CREATE_RESOURCE_ID
    THEN [rm EXCEPT !.commitments = <<proof.commitment>> \o @]
    ELSE rm

\* a commit that does not record the nullifier of a consumption
commit_proof_NoReveal(rm, proof) ==
    IF proof.image_id = CREATE_RESOURCE_ID
    THEN [rm EXCEPT !.commitments = Append(@, proof.commitment)]
    ELSE rm

\* the body of the second loop of apply: the effect of one proof record
commit_proof(rm, proof) ==
    IF proof.image_id = CONSUME_RESOURCE_ID
    THEN [rm EXCEPT !.nullifiers = @ \cup {proof.nullifier}]
    ELSE IF proof.image_id = CREATE_RESOURCE_ID
    THEN [rm EXCEPT !.commitments = Append(@, proof.commitment)]
    ELSE rm

\* the second loop of apply
RECURSIVE commit_pass(_, _, _)
commit_pass(rm, proofs, i) ==
    IF i > Len(proofs) THEN rm
    ELSE commit_pass(commit_proof(rm, proofs[i]), proofs, i + 1)

\* an end of apply that makes the new tree and records no root
record_tree_KeepRoots(rm) ==
    LET t == new(rm.commitments)
    IN  [rm EXCEPT !.tree = t]

\* the end of apply: make a new commitment tree and record its root
record_tree(rm) ==
    LET t == new(rm.commitments)
    IN  [rm EXCEPT !.tree = t, !.roots = @ \cup {root(t)}]

\* an apply with a single loop, which commits each proof record as soon as
\* it has passed its checks
RECURSIVE single_pass(_, _, _)
single_pass(rm, proofs, i) ==
    IF i > Len(proofs) THEN [rm |-> record_tree(rm), result |-> Ok]
    ELSE LET r == verify_proof(rm, proofs[i])
         IN  IF r.tag # "Ok" THEN [rm |-> rm, result |-> r]
             ELSE single_pass(commit_proof(rm, proofs[i]), proofs, i + 1)

apply_SinglePass(rm, t) == single_pass(rm, t.proofs, 1)

\* an apply that keeps only the current root
apply_OnlyHead(rm, t) ==
    LET r == verify_pass(rm, t.proofs, 1)
    IN  IF r.tag # "Ok" THEN [rm |-> rm, result |-> r]
        ELSE LET done == record_tree(commit_pass(rm, t.proofs, 1))
             IN  [rm |-> [done EXCEPT !.roots = {root(done.tree)}],
                  result |-> Ok]

\* ResourceMachine::apply: the ledger after the call and the value returned
apply(rm, t) ==
    LET r == verify_pass(rm, t.proofs, 1)
    IN  IF r.tag # "Ok" THEN [rm |-> rm, result |-> r]
        ELSE [rm |-> record_tree(commit_pass(rm, t.proofs, 1)),
              result |-> Ok]

\* ResourceMachine::default()
ResourceMachine_default ==
    [roots |-> {}, nullifiers |-> {}, commitments |-> <<>>,
     tree |-> CommitmentTree_default]

(***************************************************************************)
(* Resource, Nsk and FieldElement, as the spec describes them              *)
(***************************************************************************)
\* FieldElement += and -=
field_add(a, b) == (a + b) % FieldModulus
field_sub(a, b) == (a + FieldModulus - b) % FieldModulus

\* Option::None
None == <<>>

\* Nsk::public_key: the nullifier-key commitment derived from the secret
public_key(nsk) == <<300, nsk>>

\* Resource::commitment: a hash of all the fields
Resource_commitment(resource) ==
    <<100, resource.npk[2], resource.quantity>>

\* Resource::nullifier: a second hash, of the commitment and the secret
\* key, defined for the key the resource's npk was derived from
Resource_nullifier(resource, nsk) ==
    IF public_key(nsk) = resource.npk
    THEN <<200, nsk, resource.npk[2], resource.quantity>>
    ELSE None

\* Resource::delta: the value the resource contributes
Resource_delta(resource) == resource.quantity % FieldModulus

(***************************************************************************)
(* Transaction                                                             *)
(***************************************************************************)
ALWAYS_TRUE_ELF == "ALWAYS_TRUE_ELF"
CONSUME_RESOURCE_ELF == "CONSUME_RESOURCE_ELF"
CREATE_RESOURCE_ELF == "CREATE_RESOURCE_ELF"

\* risc0_zkvm::compute_image_id, on the ELFs of the methods crate
compute_image_id(elf) ==
    IF elf = ALWAYS_TRUE_ELF THEN ALWAYS_TRUE_ID
    ELSE IF elf = CONSUME_RESOURCE_ELF THEN CONSUME_RESOURCE_ID
    ELSE CREATE_RESOURCE_ID

\* TransactionError, Ok(()) and a panic; only IncorrectNullifierSecretKey
\* carries a key
TxOk == [tag |-> "Ok", nsk |-> 0]
IncorrectNullifierSecretKey(nsk) ==
    [tag |-> "IncorrectNullifierSecretKey", nsk |-> nsk]
ResourceLogicFailure == [tag |-> "ResourceLogicFailure", nsk |-> 0]
ResourceComplianceFailure == [tag |-> "ResourceComplianceFailure", nsk |-> 0]
TxPanic == [tag |-> "Panic", nsk |-> 0]

\* Transaction::default()
Transaction_default == [proofs |-> <<>>, delta |-> 0]

\* the record add_input pushes: the receipt of CONSUME_RESOURCE_ELF run on
\* ConsumptionInput {nsk, resource, path}
consumption_record(p, resource, nsk) ==
    [image_id |-> CONSUME_RESOURCE_ID, verifies |-> TRUE, decodes |-> TRUE,
     root |-> MerklePath_root(p, Resource_commitment(resource)),
     nullifier |-> Resource_nullifier(resource, nsk),
     commitment |-> blank]

\* the record add_output pushes: the receipt of CREATE_RESOURCE_ELF run on
\* CreationInput {resource}
creation_record(resource) ==
    [image_id |-> CREATE_RESOURCE_ID, verifies |-> TRUE, decodes |-> TRUE,
     root |-> blank, nullifier |-> blank,
     commitment |-> Resource_commitment(resource)]

\* an add_input that subtracts the resource's delta
add_input_Subtracts(self, p, resource, resource_elf, nsk, proves, complies) ==
    IF Resource_nullifier(resource, nsk) = None
    THEN [tx |-> self, result |-> IncorrectNullifierSecretKey(nsk)]
    ELSE IF resource.image_id # compute_image_id(resource_elf)
    THEN [tx |-> self, result |-> TxPanic]
    ELSE LET added == [self EXCEPT
                           !.delta = field_sub(@, Resource_delta(resource))]
         IN  IF ~proves
             THEN [tx |-> added, result |-> ResourceLogicFailure]
             ELSE IF ~complies
             THEN [tx |-> added, result |-> ResourceComplianceFailure]
             ELSE [tx |-> [added EXCEPT
                               !.proofs = Append(@,
                                   consumption_record(p, resource, nsk))],
                   result |-> TxOk]

\* an add_input that accounts for the resource before it checks the key
add_input_DeltaFirst(self, p, resource, resource_elf, nsk, proves, complies) ==
    LET added == [self EXCEPT
                      !.delta = field_add(@, Resource_delta(resource))]
    IN  IF Resource_nullifier(resource, nsk) = None
        THEN [tx |-> added, result |-> IncorrectNullifierSecretKey(nsk)]
        ELSE IF resource.image_id # compute_image_id(resource_elf)
        THEN [tx |-> self, result |-> TxPanic]
        ELSE IF ~proves
        THEN [tx |-> added, result |-> ResourceLogicFailure]
        ELSE IF ~complies
        THEN [tx |-> added, result |-> ResourceComplianceFailure]
        ELSE [tx |-> [added EXCEPT
                          !.proofs = Append(@,
                              consumption_record(p, resource, nsk))],
              result |-> TxOk]

\* Transaction::add_input: the transaction after the call and the value
\* returned. proves and complies are the outcomes of the two calls of
\* prover.prove.
add_input(self, p, resource, resource_elf, nsk, proves, complies) ==
    IF Resource_nullifier(resource, nsk) = None
    THEN [tx |-> self, result |-> IncorrectNullifierSecretKey(nsk)]
    ELSE IF resource.image_id # compute_image_id(resource_elf)
    THEN [tx |-> self, result |-> TxPanic]
    ELSE LET added == [self EXCEPT
                           !.delta = field_add(@, Resource_delta(resource))]
         IN  IF ~proves
             THEN [tx |-> added, result |-> ResourceLogicFailure]
             ELSE IF ~complies
             THEN [tx |-> added, result |-> ResourceComplianceFailure]
             ELSE [tx |-> [added EXCEPT
                               !.proofs = Append(@,
                                   consumption_record(p, resource, nsk))],
                   result |-> TxOk]

\* Transaction::add_output: both calls of prover.prove are unwrapped
add_output(self, resource, resource_elf, proves, complies) ==
    IF resource.image_id # compute_image_id(resource_elf)
    THEN [tx |-> self, result |-> TxPanic]
    ELSE LET added == [self EXCEPT
                           !.delta = field_sub(@, Resource_delta(resource))]
         IN  IF ~proves \/ ~complies
             THEN [tx |-> added, result |-> TxPanic]
             ELSE [tx |-> [added EXCEPT
                               !.proofs = Append(@,
                                   creation_record(resource))],
                   result |-> TxOk]

(***************************************************************************)
(* Resource logics: the aarm_core types they use, as the spec describes    *)
(* them                                                                    *)
(***************************************************************************)
\* a logic reference, and the bytes of a verifying key
LogicRef(l) == <<400 + l>>
key_bytes(k) == <<500 + k>>

\* Impl::hash_bytes of the concatenation of two byte strings
hash_bytes(a, b) == <<a, b>>

\* NullifierKey::commit: the nullifier-key commitment of a resource
nk_commit(nf_key) == <<300 + nf_key>>

\* Resource::commitment of aarm_core::resource::Resource: a hash of all the
\* fields
commitment(resource) ==
    <<100, resource.logic_ref, resource.label_ref, resource.value_ref,
      resource.quantity, resource.is_ephemeral, resource.nonce,
      resource.nk_commitment>>

\* Resource::nullifier_from_commitment: a hash of the key and the
\* commitment, defined for the key the resource commits to
nullifier_from_commitment(resource, nf_key, cm) ==
    IF nk_commit(nf_key) = resource.nk_commitment
    THEN <<200, nf_key, cm>>
    ELSE None

\* AuthorizationVerifyingKey::verify(message, signature).is_ok(), for the
\* signature made by the signing key of signer over signed
verify(pk, message, signature) ==
    signature.signer = pk /\ signature.signed = message

\* Ciphertext::default() and Ciphertext::encrypt
Ciphertext_default == <<>>
Ciphertext_encrypt(plain_text, pk, sk, nonce) == <<600, plain_text, pk>>

\* Resource::to_bytes
to_bytes(resource) == commitment(resource)

(***************************************************************************)
(* TrivialLogicWitness::constrain and the kudo logic guest                 *)
(***************************************************************************)
\* no LogicInstance: before the run, and after a panic
NoInstance(status) ==
    [status |-> status, tag |-> blank, is_consumed |-> FALSE, root |-> blank,
     cipher |-> <<>>, app_data |-> <<>>]

\* a LogicInstance returned or committed to the journal
LogicInstance(tag, is_consumed, rt, cipher, app_data) ==
    [status |-> "committed", tag |-> tag, is_consumed |-> is_consumed,
     root |-> rt, cipher |-> cipher, app_data |-> app_data]

\* the app_data of the trivial logic: two ExpirableBlobs
trivial_app_data ==
    <<[blob |-> <<1, 2, 3, 4>>, deletion_criterion |-> 0],
      [blob |-> <<5, 6, 7, 8>>, deletion_criterion |-> 1]>>

\* a constrain without the check of the ephemeral flag
constrain_NoEphemeralCheck(self) ==
    LET self_cm == commitment(self.resource)
        nf == nullifier_from_commitment(self.resource, self.nf_key, self_cm)
    IN  IF self.is_consumed /\ nf = None THEN NoInstance("panic")
        ELSE LET tag == IF self.is_consumed THEN nf ELSE self_cm
                 rt == MerklePath_root(self.receive_existence_path, tag)
             IN  IF self.resource.quantity # 0 THEN NoInstance("panic")
                 ELSE LogicInstance(tag, self.is_consumed, rt,
                                    <<1, 2, 3, 4>>, trivial_app_data)

\* TrivialLogicWitness::constrain
constrain(self) ==
    LET self_cm == commitment(self.resource)
        nf == nullifier_from_commitment(self.resource, self.nf_key, self_cm)
    IN  IF self.is_consumed /\ nf = None THEN NoInstance("panic")
        ELSE LET tag == IF self.is_consumed THEN nf ELSE self_cm
                 rt == MerklePath_root(self.receive_existence_path, tag)
             IN  IF self.resource.quantity # 0 THEN NoInstance("panic")
                 ELSE IF ~self.resource.is_ephemeral THEN NoInstance("panic")
                 ELSE LogicInstance(tag, self.is_consumed, rt,
                                    <<1, 2, 3, 4>>, trivial_app_data)

\* the label a kudo resource must carry
kudo_label(w, dr) ==
    IF w.issuer # None
    THEN hash_bytes(dr.resource.logic_ref, key_bytes(w.issuer[1]))
    ELSE dr.resource.logic_ref

\* the checks the kudo guest makes for a created resource only
kudo_receive_checks(w, rr, rt) ==
    /\ rt = MerklePath_root(rr.existence_path, commitment(rr.resource))
    /\ w.resource.value_ref = hash_bytes(key_bytes(w.owner[1]), w.owner[2])
    /\ w.owner[2] = rr.resource.logic_ref
    /\ verify(w.owner[1], rt, w.receiver_signature)

\* a kudo guest that does not verify the receiver's signature
kudo_main_NoSignature(w, dr, rr) ==
    LET self_cm == commitment(w.resource)
        nf == nullifier_from_commitment(w.resource, w.nf_key, self_cm)
    IN  IF w.is_consumed /\ nf = None THEN NoInstance("panic")
        ELSE LET tag == IF w.is_consumed THEN nf ELSE self_cm
                 rt == MerklePath_root(w.existence_path, tag)
                 dr_root == MerklePath_root(dr.existence_path,
                                            commitment(dr.resource))
             IN  IF rt # dr_root THEN NoInstance("panic")
                 ELSE IF w.resource.label_ref # kudo_label(w, dr)
                 THEN NoInstance("panic")
                 ELSE IF w.denomination_logic # dr.resource.logic_ref
                 THEN NoInstance("panic")
                 ELSE IF ~w.is_consumed
                 THEN IF ~(/\ rt = MerklePath_root(rr.existence_path,
                                                   commitment(rr.resource))
                           /\ w.resource.value_ref
                                  = hash_bytes(key_bytes(w.owner[1]),
                                               w.owner[2])
                           /\ w.owner[2] = rr.resource.logic_ref)
                      THEN NoInstance("panic")
                      ELSE LogicInstance(tag, w.is_consumed, rt,
                               Ciphertext_encrypt(to_bytes(w.resource),
                                                  w.owner[1], 0, 0),
                               <<>>)
                 ELSE LogicInstance(tag, w.is_consumed, rt,
                                    Ciphertext_default, <<>>)

\* main of the kudo logic guest: the LogicInstance it commits, if any
kudo_main(w, dr, rr) ==
    LET self_cm == commitment(w.resource)
        nf == nullifier_from_commitment(w.resource, w.nf_key, self_cm)
    IN  IF w.is_consumed /\ nf = None THEN NoInstance("panic")
        ELSE LET tag == IF w.is_consumed THEN nf ELSE self_cm
                 rt == MerklePath_root(w.existence_path, tag)
                 dr_root == MerklePath_root(dr.existence_path,
                                            commitment(dr.resource))
             IN  IF rt # dr_root THEN NoInstance("panic")
                 ELSE IF w.resource.label_ref # kudo_label(w, dr)
                 THEN NoInstance("panic")
                 ELSE IF w.denomination_logic # dr.resource.logic_ref
                 THEN NoInstance("panic")
                 ELSE IF ~w.is_consumed
                 THEN IF ~kudo_receive_checks(w, rr, rt)
                      THEN NoInstance("panic")
                      ELSE LogicInstance(tag, w.is_consumed, rt,
                               Ciphertext_encrypt(to_bytes(w.resource),
                                                  w.owner[1], 0, 0),
                               <<>>)
                 ELSE LogicInstance(tag, w.is_consumed, rt,
                                    Ciphertext_default, <<>>)

(***************************************************************************)
(* State                                                                   *)
(***************************************************************************)
VARIABLES
    \* the fields of the ResourceMachine
    roots, nullifiers, commitments, tree,
    \* the last call of apply: its transaction, the ledger it was called on
    \* and the value it returned
    tx, pre, result,
    \* history: every root the ledger's tree has had, and every nullifier
    \* revealed by an accepted transaction
    heads, revealed,
    \* the commitment-tree functions: the leaf sequence they are applied to,
    \* the function last applied with its argument, and what it returned
    leafs, op, position, subtrees, out_tree, out_path,
    \* a call of Hashable::combine at some level: the level and the parent
    height, out_node,
    \* a Transaction being built: its value, its value before the last call
    \* of add_input or add_output, that call and what it returned
    txb, txb_pre, tx_call, tx_result,
    \* two callers of apply on one ledger: whether each call is atomic, and
    \* each caller's position, transaction and result
    atomic, callers,
    \* a resource logic: the witness it is run on and what it commits
    witness, instance

ledger_vars == <<roots, nullifiers, commitments, tree, tx, pre, result,
                 heads, revealed>>
tree_vars == <<leafs, op, position, subtrees, out_tree, out_path,
              height, out_node>>
build_vars == <<txb, txb_pre, tx_call, tx_result>>
race_vars == <<atomic, callers>>
logic_vars == <<witness, instance>>
vars == <<roots, nullifiers, commitments, tree, tx, pre, result,
          heads, revealed, leafs, op, position, subtrees, out_tree, out_path,
          height, out_node, txb, txb_pre, tx_call, tx_result,
          atomic, callers, witness, instance>>

\* the ledger as one value
machine == [roots |-> roots, nullifiers |-> nullifiers,
            commitments |-> commitments, tree |-> tree]

\* the ledger and its history, as recorded when a call is made
snapshot == [roots |-> roots, nullifiers |-> nullifiers,
             commitments |-> commitments, tree |-> tree,
             revealed |-> revealed]

(***************************************************************************)
(* Inputs                                                                  *)
(***************************************************************************)
LeafValues == {<<n>> : n \in 0..NumLeafValues}
Nullifiers == {<<n>> : n \in 1..NumNullifiers}
Commitments == {<<n>> : n \in 1..NumCommitments}

\* the root of a tree the ledger never has
StrangerRoot == root(new(<<<<NumCommitments + 1>>>>))

\* the roots a consumption can refer to: the current head, the head of the
\* new ledger, and a root of some other tree
RootChoices == {root(tree), root(CommitmentTree_default), StrangerRoot}

\* a proof record: its image id, whether its receipt verifies, and the
\* decoded journal (root and nullifier of a ConsumptionOutput, commitment of
\* a CreationOutput). The journal of a receipt that does not verify is never
\* read, so one such record per image id is enough.
ProofRecord(id, v, r, n, c) ==
    [image_id |-> id, verifies |-> v, decodes |-> TRUE, root |-> r,
     nullifier |-> n, commitment |-> c]

\* a proof record whose receipt verifies and whose journal is not an
\* encoding of the output type of its image id
MalformedRecords ==
    {[image_id |-> id, verifies |-> TRUE, decodes |-> FALSE, root |-> blank,
      nullifier |-> blank, commitment |-> blank] :
         id \in {CONSUME_RESOURCE_ID, CREATE_RESOURCE_ID}}

ProofRecords ==
    {ProofRecord(CONSUME_RESOURCE_ID, TRUE, r, n, blank) :
         r \in RootChoices, n \in Nullifiers}
    \cup {ProofRecord(CREATE_RESOURCE_ID, TRUE, blank, blank, c) :
              c \in Commitments}
    \cup {ProofRecord(id, FALSE, blank, <<1>>, <<1>>) :
              id \in {CONSUME_RESOURCE_ID, CREATE_RESOURCE_ID}}
    \cup {ProofRecord(ALWAYS_TRUE_ID, v, blank, blank, blank) :
              v \in BOOLEAN}

Transactions ==
    {[proofs |-> ps] :
         ps \in UNION {[1..n -> ProofRecords] : n \in 0..MaxProofs}}

\* transactions that may also hold malformed records
MalformedTransactions ==
    {[proofs |-> ps] :
         ps \in UNION {[1..n -> ProofRecords \cup MalformedRecords] :
                           n \in 0..MaxProofs}}

\* nullifier secret keys, and the resources made with the first of them as
\* in main: Resource {npk: nsk.public_key(), image_id: ALWAYS_TRUE_ID, ..}
Keys == 1..NumKeys
Resources ==
    {[npk |-> public_key(1), image_id |-> ALWAYS_TRUE_ID, quantity |-> q] :
         q \in 0..MaxQuantity}

\* the ELFs a caller passes as the resource logic
Elfs == {ALWAYS_TRUE_ELF, CREATE_RESOURCE_ELF}

\* the paths main passes to add_input: dummy_tree.path(0), rm.tree.path(0)
InputPaths == {path(new(<<blank>>), 0), path(tree, 0)} \ {PanickedPath}

\* leaf sequences of at most 2^Depth leaves
LeafSeqs == UNION {[1..n -> LeafValues] : n \in 0..Pow2(Depth)}

\* leaf sequences longer than that, for merges of several full trees
LongLeafSeqs ==
    UNION {[1..n -> {blank, <<1>>}] :
               n \in (Pow2(Depth) + 1)..(Pow2(Depth) + MaxExtraLeafs)}

\* the leaves of a tree
leaves_of(t) == SubSeq(t.nodes, 1, t.leafs)

\* ls cut into subtrees of k leaves each, the last one with what is left
\* over, followed by a zero-leaf subtree when trailing is set
Chunks(ls, k, trailing) ==
    LET n == (Len(ls) + k - 1) \div k
        full == [c \in 1..n |->
                   new(SubSeq(ls, (c - 1) * k + 1,
                              IF c * k <= Len(ls) THEN c * k ELSE Len(ls)))]
    IN  IF trailing THEN Append(full, new(<<>>)) ELSE full

(***************************************************************************)
(* The ledger: ResourceMachine::default() and calls of apply               *)
(***************************************************************************)
NoCall == [tag |-> "None", digest |-> blank]

TreeIdle ==
    /\ op = "none"
    /\ position = 0
    /\ subtrees = <<>>
    /\ out_tree = CommitmentTree_default
    /\ out_path = [auth_path |-> <<>>, position |-> -2]
    /\ height = 0
    /\ out_node = blank

\* no call of add_input or add_output made yet
NoTxCall == [tag |-> "None", nsk |-> 0]
NoBuildCall ==
    [fn |-> "none",
     resource |-> [npk |-> public_key(1), image_id |-> ALWAYS_TRUE_ID,
                   quantity |-> 0],
     nsk |-> 0]

BuildIdle ==
    /\ txb = Transaction_default
    /\ txb_pre = Transaction_default
    /\ tx_call = NoBuildCall
    /\ tx_result = NoTxCall

\* no caller is in apply
NoCaller == [pc |-> "idle", tx |-> [proofs |-> <<>>], result |-> NoCall]

RaceIdle ==
    /\ atomic = TRUE
    /\ callers = <<NoCaller, NoCaller>>

\* no resource logic is run
LogicIdle ==
    /\ witness = [kind |-> "none"]
    /\ instance = NoInstance("none")

\* ResourceMachine::default(), no call of apply made yet
LedgerIdle ==
    /\ roots = ResourceMachine_default.roots
    /\ nullifiers = ResourceMachine_default.nullifiers
    /\ commitments = ResourceMachine_default.commitments
    /\ tree = ResourceMachine_default.tree
    /\ tx = [proofs |-> <<>>]
    /\ pre = [roots |-> ResourceMachine_default.roots,
              nullifiers |-> ResourceMachine_default.nullifiers,
              commitments |-> ResourceMachine_default.commitments,
              tree |-> ResourceMachine_default.tree,
              revealed |-> {}]
    /\ result = NoCall
    /\ heads = {root(ResourceMachine_default.tree)}
    /\ revealed = {}

Init ==
    /\ LedgerIdle
    /\ leafs = <<>>
    /\ TreeIdle
    /\ BuildIdle
    /\ RaceIdle
    /\ LogicIdle

\* the nullifiers of the consumptions of a transaction
tx_nullifiers(t) ==
    {t.proofs[k].nullifier :
         k \in {j \in 1..Len(t.proofs) :
                    t.proofs[j].image_id = CONSUME_RESOURCE_ID}}

\* a call rm.apply(t) by the owner of the ledger
Apply(t) ==
    LET r == apply(machine, t)
    IN  /\ roots' = r.rm.roots
        /\ nullifiers' = r.rm.nullifiers
        /\ commitments' = r.rm.commitments
        /\ tree' = r.rm.tree
        /\ tx' = t
        /\ pre' = snapshot
        /\ result' = r.result
        /\ heads' = heads \cup {root(r.rm.tree)}
        /\ revealed' = IF r.result.tag = "Ok"
                       THEN revealed \cup tx_nullifiers(t)
                       ELSE revealed
        /\ UNCHANGED <<tree_vars, build_vars, race_vars, logic_vars>>

\* the caller consumes the returned Result (expect / expect_err in main);
\* the transaction was moved into apply and is gone
Return ==
    /\ result # NoCall
    /\ result # Panic
    /\ tx' = [proofs |-> <<>>]
    /\ pre' = snapshot
    /\ result' = NoCall
    /\ UNCHANGED <<roots, nullifiers, commitments, tree, heads, revealed>>
    /\ UNCHANGED <<tree_vars, build_vars, race_vars, logic_vars>>

\* apply borrows the ledger exclusively: a call starts when the previous one
\* has returned
Call == result = NoCall /\ \E t \in Transactions : Apply(t)

Next ==
    \/ Call
    \/ Return

Spec == Init /\ [][Next]_vars

\* the ledger called with transactions whose journals may fail to decode
DecodeCall == result = NoCall /\ \E t \in MalformedTransactions : Apply(t)

DecodeNext ==
    \/ DecodeCall
    \/ Return

DecodeSpec == Init /\ [][DecodeNext]_vars

\* the units of a transaction that fills the ledger: a creation of the next
\* commitment not yet made, or a consumption against the current head
FillUnits ==
    {[create |-> TRUE, nullifier |-> blank]}
    \cup {[create |-> FALSE, nullifier |-> n] : n \in Nullifiers}

FillKinds == UNION {[1..n -> FillUnits] : n \in 0..MaxProofs}

\* the number of creations among the first k units
RECURSIVE creations_upto(_, _)
creations_upto(kinds, k) ==
    IF k = 0 THEN 0
    ELSE creations_upto(kinds, k - 1)
             + (IF kinds[k].create THEN 1 ELSE 0)

\* the transaction of these units on the current ledger; the commitments
\* created are numbered in the order of their creation
FillTransaction(kinds) ==
    [proofs |->
        [k \in 1..Len(kinds) |->
            IF kinds[k].create
            THEN ProofRecord(CREATE_RESOURCE_ID, TRUE, blank, blank,
                             <<Len(commitments) + creations_upto(kinds, k)>>)
            ELSE ProofRecord(CONSUME_RESOURCE_ID, TRUE, root(tree),
                             kinds[k].nullifier, blank)]]

\* calls of apply go on until the list has outgrown the leaf slots of the
\* tree
FillCall ==
    /\ result = NoCall
    /\ Len(commitments) <= Pow2(Depth)
    /\ \E kinds \in FillKinds : Apply(FillTransaction(kinds))

FillNext ==
    \/ FillCall
    \/ Return

FillSpec == Init /\ [][FillNext]_vars

(***************************************************************************)
(* The commitment-tree functions applied to bounded inputs                 *)
(***************************************************************************)
TreeInit ==
    /\ LedgerIdle
    /\ leafs \in LeafSeqs \cup LongLeafSeqs
    /\ TreeIdle
    /\ BuildIdle
    /\ RaceIdle
    /\ LogicIdle

\* CommitmentTree::new(leafs)
TreeNew ==
    /\ op = "none"
    /\ op' = "new"
    /\ out_tree' = new(leafs)
    /\ UNCHANGED <<leafs, position, subtrees, out_path, height, out_node>>
    /\ UNCHANGED <<ledger_vars, build_vars, race_vars, logic_vars>>

\* CommitmentTree::new(leafs).path(pos), for a leaf slot of the tree
TreePath(pos) ==
    /\ op = "none"
    /\ op' = "path"
    /\ position' = pos
    /\ out_tree' = new(leafs)
    /\ out_path' = path(new(leafs), pos)
    /\ UNCHANGED <<leafs, subtrees, height, out_node>>
    /\ UNCHANGED <<ledger_vars, build_vars, race_vars, logic_vars>>

\* CommitmentTree::merge of the subtrees leafs is cut into
TreeMerge(k, trailing) ==
    /\ op = "none"
    /\ op' = "merge"
    /\ subtrees' = Chunks(leafs, k, trailing)
    /\ out_tree' = merge(Chunks(leafs, k, trailing))
    /\ UNCHANGED <<leafs, position, out_path, height, out_node>>
    /\ UNCHANGED <<ledger_vars, build_vars, race_vars, logic_vars>>

\* Node::combine(h, &leafs[0], &leafs[1]), as complete calls it on the
\* nodes of row h
TreeCombine(h) ==
    /\ op = "none"
    /\ Len(leafs) >= 2
    /\ op' = "combine"
    /\ height' = h
    /\ out_node' = Node_combine(h, leafs[1], leafs[2])
    /\ UNCHANGED <<leafs, position, subtrees, out_tree, out_path>>
    /\ UNCHANGED <<ledger_vars, build_vars, race_vars, logic_vars>>

TreeNext ==
    \/ TreeNew
    \/ \E h \in 0..(Depth - 1) : TreeCombine(h)
    \/ \E pos \in 0..(Pow2(Depth) - 1) : TreePath(pos)
    \/ \E k \in {Pow2(e) : e \in 0..Depth}, trailing \in BOOLEAN :
           TreeMerge(k, trailing)

TreeSpec == TreeInit /\ [][TreeNext]_vars

(***************************************************************************)
(* Building a transaction and applying it, as main does                    *)
(***************************************************************************)
\* tx.add_input(p, resource, resource_elf, nsk, &())
AddInput(p, resource, resource_elf, nsk, proves, complies) ==
    /\ result = NoCall
    /\ tx_result = NoTxCall
    /\ Len(txb.proofs) < MaxProofs
    /\ LET r == add_input(txb, p, resource, resource_elf, nsk, proves,
                          complies)
       IN  /\ txb' = r.tx
           /\ tx_result' = r.result
    /\ txb_pre' = txb
    /\ tx_call' = [fn |-> "add_input", resource |-> resource, nsk |-> nsk]
    /\ UNCHANGED <<ledger_vars, tree_vars, race_vars, logic_vars>>

\* tx.add_output(resource, resource_elf, &())
AddOutput(resource, resource_elf, proves, complies) ==
    /\ result = NoCall
    /\ tx_result = NoTxCall
    /\ Len(txb.proofs) < MaxProofs
    /\ LET r == add_output(txb, resource, resource_elf, proves, complies)
       IN  /\ txb' = r.tx
           /\ tx_result' = r.result
    /\ txb_pre' = txb
    /\ tx_call' = [fn |-> "add_output", resource |-> resource, nsk |-> 0]
    /\ UNCHANGED <<ledger_vars, tree_vars, race_vars, logic_vars>>

\* the caller takes the Result of add_input or add_output and goes on; a
\* panic has ended the process
BuildReturn ==
    /\ tx_result.tag \notin {"None", "Panic"}
    /\ tx_result' = NoTxCall
    /\ tx_call' = NoBuildCall
    /\ txb_pre' = txb
    /\ UNCHANGED txb
    /\ UNCHANGED <<ledger_vars, tree_vars, race_vars, logic_vars>>

\* rm.apply(tx) of the transaction built
ApplyBuilt ==
    /\ result = NoCall
    /\ tx_result = NoTxCall
    /\ Apply(txb)

\* the ledgers main builds its transactions for: the new one, and the one
\* that has applied a transaction creating one resource
BootLedgers ==
    {ResourceMachine_default}
    \cup {apply(ResourceMachine_default,
                add_output(Transaction_default, r, ALWAYS_TRUE_ELF,
                           TRUE, TRUE).tx).rm : r \in Resources}

TxInit ==
    /\ \E rm \in BootLedgers :
           /\ roots = rm.roots
           /\ nullifiers = rm.nullifiers
           /\ commitments = rm.commitments
           /\ tree = rm.tree
           /\ pre = [roots |-> rm.roots, nullifiers |-> rm.nullifiers,
                     commitments |-> rm.commitments, tree |-> rm.tree,
                     revealed |-> {}]
           /\ heads = {root(ResourceMachine_default.tree), root(rm.tree)}
    /\ tx = [proofs |-> <<>>]
    /\ result = NoCall
    /\ revealed = {}
    /\ leafs = <<>>
    /\ TreeIdle
    /\ BuildIdle
    /\ RaceIdle
    /\ LogicIdle

\* add_input with any arguments and any outcome of the two proofs
AddInputCall ==
    \E p \in InputPaths, resource \in Resources, resource_elf \in Elfs,
       nsk \in Keys, proves \in BOOLEAN, complies \in BOOLEAN :
        AddInput(p, resource, resource_elf, nsk, proves, complies)

TxNext ==
    \/ AddInputCall
    \/ \E resource \in Resources, resource_elf \in Elfs,
          proves \in BOOLEAN, complies \in BOOLEAN :
           AddOutput(resource, resource_elf, proves, complies)
    \/ BuildReturn
    \/ ApplyBuilt

TxSpec == TxInit /\ [][TxNext]_vars

(***************************************************************************)
(* Two calls of apply on one ledger                                        *)
(***************************************************************************)
\* the transactions of the two callers: at most one proof record each
RaceTransactions ==
    {[proofs |-> ps] : ps \in UNION {[1..n -> ProofRecords] : n \in 0..1}}

\* the ledger the callers share: it has accepted one creation
RaceLedger ==
    apply(ResourceMachine_default,
          [proofs |-> <<ProofRecord(CREATE_RESOURCE_ID, TRUE, blank, blank,
                                    <<1>>)>>]).rm

RaceInit ==
    /\ roots = RaceLedger.roots
    /\ nullifiers = RaceLedger.nullifiers
    /\ commitments = RaceLedger.commitments
    /\ tree = RaceLedger.tree
    /\ pre = [roots |-> RaceLedger.roots,
              nullifiers |-> RaceLedger.nullifiers,
              commitments |-> RaceLedger.commitments,
              tree |-> RaceLedger.tree, revealed |-> {}]
    /\ heads = {root(ResourceMachine_default.tree), root(RaceLedger.tree)}
    /\ tx = [proofs |-> <<>>]
    /\ result = NoCall
    /\ revealed = {}
    /\ leafs = <<>>
    /\ TreeIdle
    /\ BuildIdle
    /\ LogicIdle
    /\ atomic \in BOOLEAN
    /\ callers = <<NoCaller, NoCaller>>

\* the ledger becomes rm
SetLedger(rm) ==
    /\ roots' = rm.roots
    /\ nullifiers' = rm.nullifiers
    /\ commitments' = rm.commitments
    /\ tree' = rm.tree
    /\ heads' = heads \cup {root(rm.tree)}

\* caller c runs apply(t) from start to end while it holds the ledger, as
\* the &mut self receiver makes every call do
RaceApply(c, t) ==
    /\ atomic
    /\ callers[c].pc = "idle"
    /\ LET r == apply(machine, t)
       IN  /\ SetLedger(r.rm)
           /\ callers' = [callers EXCEPT
                              ![c] = [pc |-> "done", tx |-> t,
                                      result |-> r.result]]
           /\ revealed' = IF r.result.tag = "Ok"
                          THEN revealed \cup tx_nullifiers(t)
                          ELSE revealed
    /\ UNCHANGED <<tx, pre, result, atomic>>
    /\ UNCHANGED <<tree_vars, build_vars, logic_vars>>

\* caller c runs the first loop of apply(t) on a ledger it does not hold
\* exclusively
RaceVerify(c, t) ==
    /\ ~atomic
    /\ callers[c].pc = "idle"
    /\ LET r == verify_pass(machine, t.proofs, 1)
       IN  callers' = [callers EXCEPT
                           ![c] = IF r.tag # "Ok"
                                  THEN [pc |-> "done", tx |-> t, result |-> r]
                                  ELSE [pc |-> "verified", tx |-> t,
                                        result |-> NoCall]]
    /\ UNCHANGED <<ledger_vars, atomic>>
    /\ UNCHANGED <<tree_vars, build_vars, logic_vars>>

\* caller c runs the second loop and the end of apply
RaceCommit(c) ==
    /\ ~atomic
    /\ callers[c].pc = "verified"
    /\ SetLedger(record_tree(commit_pass(machine, callers[c].tx.proofs, 1)))
    /\ callers' = [callers EXCEPT ![c].pc = "done", ![c].result = Ok]
    /\ revealed' = revealed \cup tx_nullifiers(callers[c].tx)
    /\ UNCHANGED <<tx, pre, result, atomic>>
    /\ UNCHANGED <<tree_vars, build_vars, logic_vars>>

\* either caller, with any transaction
RaceApplyCall == \E c \in 1..2, t \in RaceTransactions : RaceApply(c, t)
RaceVerifyCall == \E c \in 1..2, t \in RaceTransactions : RaceVerify(c, t)

RaceNext ==
    \/ RaceApplyCall
    \/ RaceVerifyCall
    \/ \E c \in 1..2 : RaceCommit(c)

RaceSpec == RaceInit /\ [][RaceNext]_vars

(***************************************************************************)
(* Running a resource logic on a witness                                   *)
(***************************************************************************)
LogicRefs == {LogicRef(l) : l \in 1..NumLogicRefs}

\* a resource of the new aarm_core, all fields given
Resource(logic, label, value, quantity, ephemeral, nonce, nkc) ==
    [logic_ref |-> logic, label_ref |-> label, value_ref |-> value,
     quantity |-> quantity, is_ephemeral |-> ephemeral, nonce |-> nonce,
     nk_commitment |-> nkc]

\* the paths of the leaves of an action tree
PathsOf(ls) == {path(new(ls), i) : i \in 0..(Len(ls) - 1)}

\* witnesses of the trivial logic
TrivialWitnesses ==
    {[resource |-> Resource(LogicRef(1), blank, blank, q, e, 0,
                            nk_commit(k)),
      receive_existence_path |-> p, is_consumed |-> c, nf_key |-> nk] :
         q \in 0..MaxQuantity, e \in BOOLEAN, k \in Keys,
         p \in PathsOf(<<<<1>>, <<2>>>>), c \in BOOLEAN, nk \in Keys}

\* the tag the logics compute for a resource; the commitment when the key
\* is not the resource's
tag_of(resource, is_consumed, nf_key) ==
    LET cm == commitment(resource)
        nf == nullifier_from_commitment(resource, nf_key, cm)
    IN  IF is_consumed /\ nf # None THEN nf ELSE cm

\* the denomination and the receive resources of a kudo
DenominationResources ==
    {Resource(l, blank, blank, 0, TRUE, 1, nk_commit(1)) : l \in LogicRefs}
ReceiveResources ==
    {Resource(l, blank, blank, 0, TRUE, 2, nk_commit(1)) : l \in LogicRefs}

\* kudo resources: the label is a logic reference or the hash of one with
\* the first key, the value names an owner
KudoResources ==
    {Resource(LogicRef(1), label_ref, value_ref, 1, FALSE, 0, nk_commit(1)) :
         label_ref \in {LogicRef(1),
                        hash_bytes(LogicRef(1), key_bytes(1))},
         value_ref \in {hash_bytes(key_bytes(k), LogicRef(1)) : k \in Keys}}

\* the inputs of the kudo guest: the kudo resource r is the first leaf of
\* an action tree with the denomination resource d and the receive resource
\* v, whose paths are those of the leaves at dpos and vpos; the signature is
\* signer's, over the root of the kudo resource's path or over something
\* else
KudoInput(r, c, nk, d, v, dl, i, o, signer, signs_root, dpos, vpos) ==
    LET ls == <<tag_of(r, c, nk), commitment(d), commitment(v)>>
        p0 == path(new(ls), 0)
    IN  [kind |-> "kudo",
         w |-> [resource |-> r, is_consumed |-> c, nf_key |-> nk,
                existence_path |-> p0,
                denomination_logic |-> dl, issuer |-> i, owner |-> o,
                receiver_signature |->
                    [signer |-> signer,
                     signed |-> IF signs_root
                                THEN MerklePath_root(p0, ls[1])
                                ELSE blank]],
         dr |-> [resource |-> d, existence_path |-> path(new(ls), dpos)],
         rr |-> [resource |-> v, existence_path |-> path(new(ls), vpos)]]

LogicInit ==
    /\ LedgerIdle
    /\ leafs = <<>>
    /\ TreeIdle
    /\ BuildIdle
    /\ RaceIdle
    /\ instance = NoInstance("none")
    /\ \/ \E w \in TrivialWitnesses : witness = [kind |-> "trivial", w |-> w]
       \/ \E r \in KudoResources, c \in BOOLEAN, nk \in Keys,
             d \in DenominationResources, v \in ReceiveResources,
             dl \in LogicRefs, i \in {None, <<1>>}, o \in Keys \X LogicRefs,
             signer \in Keys, signs_root \in BOOLEAN, dpos \in 1..2,
             vpos \in 1..2 :
              witness = KudoInput(r, c, nk, d, v, dl, i, o, signer,
                                  signs_root, dpos, vpos)

\* the trivial logic guest: witness.constrain()
RunTrivial ==
    /\ witness.kind = "trivial"
    /\ instance.status = "none"
    /\ instance' = constrain(witness.w)
    /\ UNCHANGED witness
    /\ UNCHANGED <<ledger_vars, tree_vars, build_vars, race_vars>>

\* the kudo logic guest
RunKudo ==
    /\ witness.kind = "kudo"
    /\ instance.status = "none"
    /\ instance' = kudo_main(witness.w, witness.dr, witness.rr)
    /\ UNCHANGED witness
    /\ UNCHANGED <<ledger_vars, tree_vars, build_vars, race_vars>>

LogicNext ==
    \/ RunTrivial
    \/ RunKudo

LogicSpec == LogicInit /\ [][LogicNext]_vars

(***************************************************************************)
(* Properties of the ledger                                                *)
(***************************************************************************)
Accepted == result.tag = "Ok"
Rejected == result.tag \in {"InvalidProof", "UnknownRoot",
                            "RevealedNullifier", "DuplicateCommitment"}

LedgerUnchanged ==
    /\ roots = pre.roots
    /\ nullifiers = pre.nullifiers
    /\ commitments = pre.commitments
    /\ tree = pre.tree

IsConsumption(u) == u.image_id = CONSUME_RESOURCE_ID
IsCreation(u) == u.image_id = CREATE_RESOURCE_ID

\* the conditions of the verify pass on one unit, against the ledger the
\* call was made on
FailsProof(u) == ~u.verifies
FailsRoot(u) == IsConsumption(u) /\ u.root \notin pre.roots
FailsNullifier(u) == IsConsumption(u) /\ u.nullifier \in pre.nullifiers
FailsCommitment(u) ==
    IsCreation(u) /\ \E k \in DOMAIN pre.commitments :
                         pre.commitments[k] = u.commitment
Passes(u) ==
    ~FailsProof(u) /\ ~FailsRoot(u) /\ ~FailsNullifier(u)
        /\ ~FailsCommitment(u)

\* every unit before the k-th passes all its checks
PassesBefore(k) == \A j \in 1..(k - 1) : Passes(tx.proofs[j])

\* C1: if apply returns any error, whichever unit fails and however many
\* valid units precede or follow it, the roots, the nullifiers, the
\* commitments and the tree are what they were before the call.
C1_RejectedLeavesLedger == Rejected => LedgerUnchanged

\* a rejected transaction whose first unit is a creation that passes every
\* check, applied to a ledger that already holds commitments
C1_Witness ==
    /\ Rejected
    /\ Len(tx.proofs) >= 2
    /\ IsCreation(tx.proofs[1]) /\ Passes(tx.proofs[1])
    /\ ~Passes(tx.proofs[2])
    /\ pre.commitments # <<>>

\* C2: once an accepted transaction has revealed nullifier N, every later
\* call of apply with a transaction that has a consumption unit with
\* nullifier N is rejected and leaves the ledger unchanged; the error is
\* RevealedNullifier(N) when no earlier check of that transaction fails.
C2_NoDoubleSpend ==
    \A k \in DOMAIN tx.proofs :
        LET u == tx.proofs[k]
        IN  (IsConsumption(u) /\ u.nullifier \in pre.revealed) =>
                /\ Rejected
                /\ LedgerUnchanged
                /\ (PassesBefore(k) /\ ~FailsProof(u) /\ ~FailsRoot(u))
                       => result = RevealedNullifier(u.nullifier)

\* a second spend of a nullifier, against a known root and after a unit
\* that passes, refused as such
C2_Witness ==
    /\ result.tag = "RevealedNullifier"
    /\ result.digest \in pre.revealed
    /\ Len(tx.proofs) = 2
    /\ Passes(tx.proofs[1])
    /\ IsConsumption(tx.proofs[2])
    /\ tx.proofs[2].root \in pre.roots

\* C3 as stated: if commitment C was appended by an earlier accepted
\* transaction, any later transaction with a creation unit that produces C
\* is rejected with DuplicateCommitment, and C is not appended again.
C3_AsStated ==
    \A k \in DOMAIN tx.proofs :
        LET u == tx.proofs[k]
        IN  (IsCreation(u) /\ u.verifies /\ FailsCommitment(u)) =>
                /\ result = DuplicateCommitment(u.commitment)
                /\ commitments = pre.commitments

\* C3 as amended: such a transaction is rejected and C is not appended
\* again; the error is DuplicateCommitment(C) when no earlier check of the
\* transaction fails first.
C3_NoDuplicateCreation ==
    \A k \in DOMAIN tx.proofs :
        LET u == tx.proofs[k]
        IN  (IsCreation(u) /\ u.verifies /\ FailsCommitment(u)) =>
                /\ Rejected
                /\ commitments = pre.commitments
                /\ PassesBefore(k)
                       => result = DuplicateCommitment(u.commitment)

\* a second creation of a commitment, after a unit that passes, refused as
\* such
C3_Witness ==
    /\ result.tag = "DuplicateCommitment"
    /\ Len(tx.proofs) = 2
    /\ Passes(tx.proofs[1])
    /\ IsCreation(tx.proofs[2])
    /\ result.digest = tx.proofs[2].commitment
    /\ \E k \in DOMAIN commitments : commitments[k] = result.digest

\* the nullifiers of the consumption units of the last transaction
ConsumedBy(t) ==
    {u.nullifier : u \in {v \in {t.proofs[k] : k \in DOMAIN t.proofs} :
                              IsConsumption(v)}}

\* the commitments of the creation units of the last transaction, in the
\* order of the units
CreatedBy(t) ==
    LET cs == SelectSeq(t.proofs, IsCreation)
    IN  [k \in 1..Len(cs) |-> cs[k].commitment]

\* C7: when apply succeeds, nullifiers gains the nullifier of every
\* consumption unit, commitments is followed by the commitment of every
\* creation unit in the order of the units, the tree is new(commitments),
\* roots gains the root of that tree, and nothing else changes.
C7_AcceptedPostState ==
    Accepted =>
        /\ nullifiers = pre.nullifiers \cup ConsumedBy(tx)
        /\ commitments = pre.commitments \o CreatedBy(tx)
        /\ tree = new(pre.commitments \o CreatedBy(tx))
        /\ roots = pre.roots \cup {root(new(pre.commitments \o CreatedBy(tx)))}

\* an accepted transaction with a consumption and a creation, on a ledger
\* that already holds a commitment and a nullifier
C7_Witness ==
    /\ Accepted
    /\ pre.commitments # <<>>
    /\ pre.nullifiers # {}
    /\ ConsumedBy(tx) # {}
    /\ CreatedBy(tx) # <<>>

\* the error of the first check that fails on unit u, in the order of the
\* checks: proof, root, nullifier, commitment
FirstError(u) ==
    IF FailsProof(u) THEN InvalidProof
    ELSE IF FailsRoot(u) THEN UnknownRoot(u.root)
    ELSE IF FailsNullifier(u) THEN RevealedNullifier(u.nullifier)
    ELSE DuplicateCommitment(u.commitment)

\* C8: apply returns Ok if and only if no unit has a proof that fails, an
\* unknown root, a revealed nullifier or a duplicate commitment; otherwise
\* it returns the error of the first unit that has one, which is
\* InvalidProof, UnknownRoot with the root, RevealedNullifier with the
\* nullifier or DuplicateCommitment with the commitment, in this order of
\* checks.
C8_VerifyPassErrors ==
    result # NoCall =>
        /\ Accepted <=> \A k \in DOMAIN tx.proofs : Passes(tx.proofs[k])
        /\ \A k \in DOMAIN tx.proofs :
               (PassesBefore(k) /\ ~Passes(tx.proofs[k]))
                   => result = FirstError(tx.proofs[k])

\* a consumption with an unknown root refused with that root, after a unit
\* that passes
C8_Witness ==
    /\ result.tag = "UnknownRoot"
    /\ Len(tx.proofs) = 2
    /\ Passes(tx.proofs[1])
    /\ result.digest = tx.proofs[2].root
    /\ pre.roots # {}

\* C9: over any sequence of calls of apply, roots and nullifiers never lose
\* an element and the commitments before a call are a prefix of the
\* commitments after it.
C9_Monotone ==
    [][/\ roots \subseteq roots'
       /\ nullifiers \subseteq nullifiers'
       /\ Len(commitments) <= Len(commitments')
       /\ \A k \in DOMAIN commitments : commitments'[k] = commitments[k]]_vars

\* an accepted transaction that made all three collections grow from
\* non-empty ones
C9_Witness ==
    /\ Accepted
    /\ pre.roots # {} /\ roots # pre.roots
    /\ pre.nullifiers # {} /\ nullifiers # pre.nullifiers
    /\ pre.commitments # <<>> /\ Len(commitments) > Len(pre.commitments)

\* C10: in every reachable state, a digest is in roots if and only if it
\* has been the root of the ledger's tree at some point since the ledger was
\* constructed.
C10_RootsAreTheHeads == roots = heads

(***************************************************************************)
(* Properties of the commitment tree                                       *)
(***************************************************************************)
\* the root of the complete binary hash tree over the given leaf slots,
\* whose number is a power of two
RECURSIVE FullTreeRoot(_)
FullTreeRoot(slots) ==
    IF Len(slots) = 1 THEN slots[1]
    ELSE combine(FullTreeRoot(SubSeq(slots, 1, Len(slots) \div 2)),
                 FullTreeRoot(SubSeq(slots, Len(slots) \div 2 + 1,
                                     Len(slots))))

\* the 2^Depth leaf slots of a tree with leaves ls: ls, then blanks
Slots(ls) ==
    [k \in 1..Pow2(Depth) |-> IF k <= Len(ls) THEN ls[k] ELSE blank]

\* C4: for every leaf sequence L of at most 2^Depth leaves and every index
\* i < |L|, the path new(L).path(i) folded from L[i] by MerklePath::root is
\* new(L).root(), and folded from any other leaf value it is not.
C4_PathFoldsToRoot ==
    (op = "path" /\ Len(leafs) <= Pow2(Depth) /\ position < Len(leafs)) =>
        /\ out_path # PanickedPath
        /\ MerklePath_root(out_path, leafs[position + 1]) = root(new(leafs))
        /\ \A d \in LeafValues \ {leafs[position + 1]} :
               MerklePath_root(out_path, d) # root(new(leafs))

\* the path of the last leaf of a row of odd width of three or more leaves,
\* whose sibling is the padding of the row
C4_Witness ==
    /\ op = "path"
    /\ Len(leafs) >= 3
    /\ Len(leafs) % 2 = 1
    /\ position = Len(leafs) - 1
    /\ leafs[1] # leafs[position + 1]

\* the leaves of a list of subtrees, one after the other
RECURSIVE ConcatLeaves(_)
ConcatLeaves(ts) ==
    IF ts = <<>> THEN <<>>
    ELSE leaves_of(Head(ts)) \o ConcatLeaves(Tail(ts))

\* the precondition of merge: all subtrees but the last have the same
\* power-of-two leaf count, and the last has at most that many leaves
MergePrecondition(ts) ==
    Len(ts) >= 2 =>
        /\ \E e \in 0..Depth : ts[1].leafs = Pow2(e)
        /\ \A k \in 1..(Len(ts) - 1) : ts[k].leafs = ts[1].leafs
        /\ ts[Len(ts)].leafs <= ts[1].leafs

\* C5: for subtrees that meet the precondition of merge, merge(subtrees)
\* has the root of new(the subtrees' leaves one after the other); the merge
\* of no subtree is the zero-leaf tree and the merge of one subtree is that
\* subtree.
C5_MergeRoot ==
    (op = "merge" /\ MergePrecondition(subtrees)) =>
        /\ out_tree # PanickedTree
        /\ root(out_tree) = root(new(ConcatLeaves(subtrees)))
        /\ Len(subtrees) = 0 => out_tree = [nodes |-> <<>>, leafs |-> 0]
        /\ Len(subtrees) = 1 => out_tree = subtrees[1]

\* a merge of full subtrees of two or more leaves with a last subtree of an
\* odd number of leaves
C5_Witness ==
    /\ op = "merge"
    /\ Len(subtrees) >= 3
    /\ subtrees[1].leafs >= 2
    /\ subtrees[Len(subtrees)].leafs % 2 = 1
    /\ subtrees[Len(subtrees)].leafs < subtrees[1].leafs

\* C6: for every leaf sequence L of at most 2^Depth leaves, the empty one
\* included, new(L).root() is the root of the complete binary hash tree of
\* height Depth whose first |L| leaves are L and whose other leaves are
\* blank; appending a blank leaf to L does not change the root.
C6_RootOfPaddedTree ==
    (op = "new" /\ Len(leafs) <= Pow2(Depth)) =>
        /\ root(out_tree) = FullTreeRoot(Slots(leafs))
        /\ Len(leafs) < Pow2(Depth)
               => root(new(Append(leafs, blank))) = root(out_tree)

\* a tree of an odd number of leaves, fewer than 2^Depth, the last of which
\* is not blank
C6_Witness ==
    /\ op = "new"
    /\ Len(leafs) % 2 = 1
    /\ Len(leafs) < Pow2(Depth)
    /\ leafs[Len(leafs)] # blank

(***************************************************************************)
(* The scenario of main: create, consume, consume again                    *)
(***************************************************************************)
\* a transaction of the single verifying unit u
OnlyUnit(u) == Len(tx.proofs) = 1 /\ tx.proofs[1] = u

\* the ledger that holds commitment c and nothing else
HoldsOnly(l, c) ==
    /\ l.commitments = <<c>>
    /\ l.roots = {root(new(<<c>>))}
    /\ l.tree = new(<<c>>)

CalledAddInput == tx_call.fn = "add_input"
CalledAddOutput == tx_call.fn = "add_output"

\* C12: apply accepts a transaction only if its aggregate delta is zero; a
\* transaction whose delta is not zero is rejected.
C12_AcceptedIsBalanced == (result # NoCall /\ txb.delta # 0) => Rejected

C14_KeyMismatch ==
    (CalledAddInput /\ public_key(tx_call.nsk) # tx_call.resource.npk) =>
        /\ tx_result = IncorrectNullifierSecretKey(tx_call.nsk)
        /\ txb.proofs = txb_pre.proofs
        /\ txb.delta = txb_pre.delta
        /\ Resource_nullifier(tx_call.resource, tx_call.nsk) = None

\* a mismatched key, for a resource of non-zero delta, given to a
\* transaction that already has a proof record and a non-zero delta
C14_Witness ==
    /\ CalledAddInput
    /\ tx_result.tag = "IncorrectNullifierSecretKey"
    /\ public_key(tx_call.nsk) # tx_call.resource.npk
    /\ Resource_delta(tx_call.resource) # 0
    /\ txb_pre.proofs # <<>>
    /\ txb_pre.delta # 0

(***************************************************************************)
(* Journals that do not decode                                             *)
(***************************************************************************)
\* the k-th unit of the last transaction is the first that does not pass,
\* and it is a verified unit whose journal does not decode
FirstFailureIsMalformed(k) ==
    /\ \A j \in 1..(k - 1) : Passes(tx.proofs[j]) /\ tx.proofs[j].decodes
    /\ tx.proofs[k].verifies
    /\ decoded(tx.proofs[k])
    /\ ~tx.proofs[k].decodes

\* C15: if a proof verifies and its public output cannot be decoded into the
\* expected output structure, apply reports a typed error, without aborting,
\* and leaves the ledger unchanged.
C15_MalformedIsTypedError ==
    (result # NoCall /\ \E k \in DOMAIN tx.proofs : FirstFailureIsMalformed(k))
        => Rejected /\ LedgerUnchanged

(***************************************************************************)
(* Properties of Hashable and MerklePath                                   *)
(***************************************************************************)
\* C16: Hashable::combine is height-parameterized: the parent computed from
\* the same two children differs between tree levels, and the combine of
\* level h is the one both complete and MerklePath::root use at level h.
C16_HeightSeparated ==
    op = "combine" =>
        /\ \A h \in 0..(Depth - 1) :
               h # height => Node_combine(h, leafs[1], leafs[2]) # out_node
        /\ root_fold(<<[node |-> leafs[2], flag |-> FALSE]>>, 1, leafs[1])
               = out_node

\* the node of index i in the row of height h of the full tree over ls
SubtreeRoot(ls, h, i) ==
    FullTreeRoot(SubSeq(Slots(ls), i * Pow2(h) + 1, (i + 1) * Pow2(h)))

\* the index, in the row of height h, of the node on the way from the leaf
\* at position up to the root
OnPath(h) == position \div Pow2(h)

\* a path was taken for a leaf of a tree of at most 2^Depth leaves
PathOfLeaf ==
    /\ op = "path"
    /\ Len(leafs) <= Pow2(Depth)
    /\ position < Len(leafs)
    /\ out_path # PanickedPath

\* C17 as stated: the boolean of a path element is true exactly when the
\* recorded sibling is the right child, and both path and MerklePath::root
\* follow this meaning.
C17_AsStated ==
    PathOfLeaf =>
        \A h \in 0..(Depth - 1) :
            LET e == out_path.auth_path[h + 1]
            IN  /\ e.flag = (OnPath(h) % 2 = 0)
                /\ e.flag => e.node = SubtreeRoot(leafs, h, OnPath(h) + 1)
                /\ e.flag =>
                       root_fold(<<e>>, 1, SubtreeRoot(leafs, h, OnPath(h)))
                           = combine(SubtreeRoot(leafs, h, OnPath(h)), e.node)

\* C17 as amended: the boolean of a path element is true exactly when the
\* recorded sibling is the left child (the node on the path is the right
\* child); path records the sibling accordingly, and MerklePath::root, at
\* each element, combines the sibling on the side the flag tells and so
\* obtains the parent.
C17_FlagMeansSiblingLeft ==
    PathOfLeaf =>
        \A h \in 0..(Depth - 1) :
            LET e == out_path.auth_path[h + 1]
                i == OnPath(h)
            IN  /\ e.flag = (i % 2 = 1)
                /\ e.node = SubtreeRoot(leafs, h,
                                        IF e.flag THEN i - 1 ELSE i + 1)
                /\ root_fold(<<e>>, 1, SubtreeRoot(leafs, h, i))
                       = (IF e.flag
                          THEN combine(e.node, SubtreeRoot(leafs, h, i))
                          ELSE combine(SubtreeRoot(leafs, h, i), e.node))
                /\ root_fold(<<e>>, 1, SubtreeRoot(leafs, h, i))
                       = SubtreeRoot(leafs, h + 1, i \div 2)

\* a path with an element of each kind, in a tree whose leaves differ
C17_Witness ==
    /\ PathOfLeaf
    /\ \E h \in 1..Depth : out_path.auth_path[h].flag
    /\ \E h \in 1..Depth : ~out_path.auth_path[h].flag
    /\ \E k \in DOMAIN leafs : leafs[k] # leafs[1]

(***************************************************************************)
(* Interleaved calls of apply                                              *)
(***************************************************************************)
\* both callers' transactions were accepted and reveal a common nullifier
BothAccepted ==
    /\ \A c \in 1..2 : callers[c].pc = "done" /\ callers[c].result = Ok
    /\ tx_nullifiers(callers[1].tx) \cap tx_nullifiers(callers[2].tx) # {}

\* C18: when each apply runs from start to end on the ledger it holds, no
\* order of the two calls accepts two transactions that reveal the same
\* nullifier; when the two calls can interleave between the verify pass and
\* the commit pass, both are accepted (C18_Witness).
C18_AtomicNeverBoth == atomic => ~BothAccepted

\* verify A, verify B, commit A, commit B: both accepted
C18_Witness == ~atomic /\ BothAccepted

(***************************************************************************)
(* Properties of the resource logics                                       *)
(***************************************************************************)
Committed == instance.status = "committed"

\* the nullifier key of a witness is the one its resource commits to
KeyMatches(w) == nk_commit(w.nf_key) = w.resource.nk_commitment

\* the tag of a witness: the nullifier when consumed, else the commitment
TagOf(w) ==
    IF w.is_consumed
    THEN nullifier_from_commitment(w.resource, w.nf_key,
                                   commitment(w.resource))
    ELSE commitment(w.resource)

\* C19: TrivialLogicWitness::constrain produces a LogicInstance only if the
\* resource's quantity is 0 and it is ephemeral (and, when is_consumed, the
\* nullifier key is the resource's); the instance's tag is the nullifier
\* when is_consumed and the commitment otherwise, its is_consumed flag is
\* the witness's, and its root is receive_existence_path.root(tag).
C19_TrivialConstrain ==
    (witness.kind = "trivial" /\ Committed) =>
        LET w == witness.w
        IN  /\ w.resource.quantity = 0
            /\ w.resource.is_ephemeral
            /\ w.is_consumed => KeyMatches(w)
            /\ instance.tag = TagOf(w)
            /\ instance.tag # None
            /\ instance.is_consumed = w.is_consumed
            /\ instance.root
                   = MerklePath_root(w.receive_existence_path, instance.tag)

\* an instance for a consumed resource, whose tag is the nullifier
C19_Witness ==
    /\ witness.kind = "trivial"
    /\ Committed
    /\ witness.w.is_consumed
    /\ instance.tag # commitment(witness.w.resource)

\* the root of the existence path of a denomination or receive resource
ExistenceRoot(x) ==
    MerklePath_root(x.existence_path, commitment(x.resource))

\* C20: the kudo guest commits a LogicInstance for a created resource only
\* if the existence paths of the denomination and of the receive resource
\* yield the root of the kudo resource's path, the resource's value_ref is
\* hash(owner key || owner logic_ref), the owner's logic_ref is the receive
\* resource's, and the owner's signature over that root verifies; for a
\* consumed resource the receive, ownership and signature checks are not
\* made and the cipher committed is the empty ciphertext.
C20_KudoGuest ==
    (witness.kind = "kudo" /\ instance.status # "none") =>
        LET w == witness.w
            rt == MerklePath_root(w.existence_path, TagOf(w))
        IN  /\ (Committed /\ ~w.is_consumed) =>
                   /\ instance.root = rt
                   /\ ExistenceRoot(witness.dr) = rt
                   /\ ExistenceRoot(witness.rr) = rt
                   /\ w.resource.value_ref
                          = hash_bytes(key_bytes(w.owner[1]), w.owner[2])
                   /\ w.owner[2] = witness.rr.resource.logic_ref
                   /\ w.receiver_signature.signer = w.owner[1]
                   /\ w.receiver_signature.signed = rt
                   /\ instance.cipher # Ciphertext_default
            /\ (Committed /\ w.is_consumed) =>
                   /\ ExistenceRoot(witness.dr) = rt
                   /\ instance.cipher = Ciphertext_default
            /\ (/\ w.is_consumed
                /\ KeyMatches(w)
                /\ ExistenceRoot(witness.dr) = rt
                /\ w.resource.label_ref = kudo_label(w, witness.dr)
                /\ w.denomination_logic = witness.dr.resource.logic_ref)
               => Committed

\* an instance for a created kudo with an issuer
C20_Witness ==
    /\ witness.kind = "kudo"
    /\ Committed
    /\ ~witness.w.is_consumed
    /\ witness.w.issuer # None
    /\ instance.cipher # Ciphertext_default

\* an instance for a consumed kudo whose receive resource, owner and
\* signature would not pass
C20_ConsumedSkips ==
    /\ witness.kind = "kudo"
    /\ Committed
    /\ witness.w.is_consumed
    /\ ExistenceRoot(witness.rr) # instance.root
    /\ witness.w.owner[2] # witness.rr.resource.logic_ref
    /\ witness.w.receiver_signature.signed # instance.root

(***************************************************************************)
(* Repetitions inside one transaction                                      *)
(***************************************************************************)
\* two different units of the last transaction are consumptions of one
\* nullifier
RepeatsNullifier ==
    \E j, k \in DOMAIN tx.proofs :
        /\ j < k
        /\ IsConsumption(tx.proofs[j]) /\ IsConsumption(tx.proofs[k])
        /\ tx.proofs[j].nullifier = tx.proofs[k].nullifier

\* C21: across all transactions accepted by apply, each nullifier is
\* revealed by at most one consumption unit: a transaction that has two
\* consumption units with the same nullifier is never accepted.
C21_OneUnitPerNullifier ==
    /\ RepeatsNullifier => ~Accepted
    /\ Accepted =>
           \A k \in DOMAIN tx.proofs :
               IsConsumption(tx.proofs[k]) =>
                   tx.proofs[k].nullifier \notin pre.revealed

\* C22: in every reachable ledger state the commitments list holds no digest
\* twice, also when one transaction has two creation units with the same
\* commitment.
C22_CommitmentsDistinct ==
    \A j, k \in DOMAIN commitments :
        j # k => commitments[j] # commitments[k]

(***************************************************************************)
(* The ledger and the capacity of its tree                                 *)
(***************************************************************************)
\* C23: in every ledger state reached after at least one successful apply,
\* every commitment of the list is provable against the current head: for
\* every index i < len(commitments), tree.path(i) folded from commitments[i]
\* is tree.root(), and tree.root() is in roots; the ledger never accepts
\* more commitments than the tree has leaf slots, 2^Depth.
C23_CommitmentsProvable ==
    roots # {} =>
        /\ root(tree) \in roots
        /\ Len(commitments) <= Pow2(Depth)
        /\ \A i \in 0..(Len(commitments) - 1) :
               /\ path(tree, i) # PanickedPath
               /\ MerklePath_root(path(tree, i), commitments[i + 1])
                      = root(tree)

(***************************************************************************)
(* merge against new                                                       *)
(***************************************************************************)
\* the merged tree has the backing sequence and the leaf count of the tree
\* made of the subtrees' leaves
SameAsNew ==
    /\ out_tree # PanickedTree
    /\ out_tree.nodes = new(ConcatLeaves(subtrees)).nodes
    /\ out_tree.leafs = Len(ConcatLeaves(subtrees))

\* the path of every leaf of the merged tree folds to the merged root
MergedPathsVerify ==
    \A i \in 0..(out_tree.leafs - 1) :
        /\ path(out_tree, i) # PanickedPath
        /\ MerklePath_root(path(out_tree, i), ConcatLeaves(subtrees)[i + 1])
               = root(out_tree)

C25_UnfilledPathFoldsToRoot ==
    (op = "path" /\ Len(leafs) < Pow2(Depth) /\ position >= Len(leafs)) =>
        /\ out_path # PanickedPath
        /\ MerklePath_root(out_path, blank) = root(out_tree)

\* the path of the last leaf slot of a tree whose leaves fill at most the
\* left half: the sibling at the bottom is to the right of the leaf row
C25_Witness ==
    /\ op = "path"
    /\ Len(leafs) >= 1
    /\ Len(leafs) <= Pow2(Depth - 1)
    /\ leafs[1] # blank
    /\ position = Pow2(Depth) - 1
    /\ out_path # PanickedPath
    /\ out_path.auth_path[1] = [node |-> blank, flag |-> TRUE]

(***************************************************************************)
(* add_input when proving fails                                            *)
(***************************************************************************)
\* C26: if add_input returns ResourceLogicFailure or
\* ResourceComplianceFailure, the transaction is unchanged: its proofs list
\* and its delta are what they were before the call.
C26_ProvingFailureLeavesTx ==
    (/\ CalledAddInput
     /\ tx_result \in {ResourceLogicFailure, ResourceComplianceFailure}) =>
        /\ txb.proofs = txb_pre.proofs
        /\ txb.delta = txb_pre.delta

(***************************************************************************)
(* The capacity reserved for a tree                                        *)
(***************************************************************************)
\* C27: the capacity reserved by new and merge, 2 * leaf_count + Depth - 1,
\* holds the whole tree: the backing sequence built for n leaves, with one
\* padding node added to every row of odd width, never has more than
\* 2 * n + Depth - 1 elements.
C27_CapacitySufficient ==
    (op \in {"new", "merge"} /\ out_tree # PanickedTree) =>
        Len(out_tree.nodes) <= with_capacity(out_tree.leafs)

====
